---- MODULE Spec2Model ----
(***************************************************************************)
(* A model of pydantic_collections: PydanticSequence and PydanticMapping   *)
(* (sequence.py, mapping.py) over the shared validation policy of          *)
(* BaseCollectionModel (core.py) and the helpers of external_utils.py.     *)
(*                                                                         *)
(* One instance of one specialized collection class is observed.  Init     *)
(* chooses the class (sequence or mapping, its element annotation, its     *)
(* model_config); every action is one call of a public operation, run to   *)
(* completion, and records in `last` the call, the store it found, and     *)
(* what the call returned or raised; Return clears the record before the   *)
(* next call.                                                              *)
(*                                                                         *)
(* Python values are records tagged with their runtime class in `cls`.     *)
(* Python indices are 0-based integers; TLA+ sequences are 1-based, so     *)
(* Python position i of a list is element i + 1 of the sequence.           *)
(***************************************************************************)
EXTENDS FiniteSets, Integers, Sequences, TLC

VARIABLES kind, annotation, model_config, root, last, persistence_db, commit_calls,
          cached, body_runs, specialized

vars ==
    <<kind, annotation, model_config, root, last, persistence_db, commit_calls,
      cached, body_runs, specialized>>

\* The longest store the model grows to.
MaxLen == 2

\* The most commit() calls a caller makes.
MaxCommits == 2

\* The most runs of the class-building body for one class and element type.
MaxRuns == 2

---------------------------------------------------------------------------
(* Python values *)

None == [cls |-> "NoneType"]

IntV(i) == [cls |-> "int", val |-> i]

StrV(s) == [cls |-> "str", val |-> s]

ListV(xs) == [cls |-> "list", items |-> xs]

\* A dict keeps its entries in insertion order: <<[key, value], ...>>.
Entry(k, v) == [key |-> k, value |-> v]

DictV(es) == [cls |-> "dict", items |-> es]

Slice(a, b, c) == [cls |-> "slice", start |-> a, stop |-> b, step |-> c]

\* An instance of the tests' element model: class User(name: str, age: int).
User(n, a) == [cls |-> "User", name |-> n, age |-> a]

\* The plain record {"name": n, "age": a}.
UserData(n, a) == DictV(<<Entry(StrV("name"), StrV(n)), Entry(StrV("age"), IntV(a))>>)

\* JSON text, as the value it parses to.
JString(s) == [cls |-> "json_string", val |-> s]

JNumber(i) == [cls |-> "json_number", val |-> i]

JArray(xs) == [cls |-> "json_array", items |-> xs]

JObject(es) == [cls |-> "json_object", items |-> es]

\* A collection instance, by its store.
Instance(store) == [cls |-> "instance", root |-> store]

Max(a, b) == IF a >= b THEN a ELSE b

Min(a, b) == IF a <= b THEN a ELSE b

Keys(es) == {es[i].key : i \in DOMAIN es}

HasKey(es, k) == \E i \in DOMAIN es : es[i].key = k

Lookup(es, k) == es[CHOOSE i \in DOMAIN es : es[i].key = k].value

\* str(key) for the keys of the model.
PyStr(k) == IF k.cls = "str" THEN k.val ELSE ToString(k.val)

---------------------------------------------------------------------------
(* Element annotations *)

ClassT(n) == [kind |-> "class", name |-> n]

UnionT(as) == [kind |-> "union", args |-> as]

\* A subscripted generic such as typing.List[str]: not a class, origin list.
AliasT(o) == [kind |-> "alias", origin |-> o]

\* typing.Annotated[origin, metadata]; metadata names the class of the metadata
\* object.
AnnotatedT(o, md) == [kind |-> "annotated", origin |-> o, metadata |-> md]

\* The classes a value's class derives from (type(value).__mro__).
Mro(c) == {c, "object"}

isinstance(value, types) == \E i \in DOMAIN types : types[i] \in Mro(value.cls)

RECURSIVE get_types_from_annotation(_)
RECURSIVE TypesOfArgs(_)
TypesOfArgs(as) ==
    IF as = <<>> THEN <<>>
    ELSE get_types_from_annotation(Head(as)) \o TypesOfArgs(Tail(as))

get_types_from_annotation(tp) ==
    IF tp.kind = "union" THEN TypesOfArgs(tp.args)
    ELSE IF tp.kind = "class" THEN <<tp.name>>
    ELSE <<tp.origin>>

\* wrap_errors_with_loc: the error's location gets the prefix. The engine's
\* errors for the values of this model are at the value itself, location ().
wrap_errors_with_loc(errorLoc, loc_prefix) == loc_prefix \o errorLoc

---------------------------------------------------------------------------
(* Specialization: tp_cache (external_utils.py) around
   BaseCollectionModelMeta.__getitem__ (core.py) *)

\* hash(el_type) raises TypeError for an Annotated whose metadata is a dict.
Hashable(tp) == ~(tp.kind = "annotated" /\ tp.metadata = "dict")

\* pydantic.TypeAdapter(el_type) raises for a class it can derive no schema
\* from; the error it raises is a TypeError.
Buildable(tp) == ~(tp.kind = "class" /\ tp.name = "Plain")

\* The key lru_cache(typed=True) files a call under: the arguments as Python
\* compares and hashes them.  Two unions are equal when their members are,
\* in any order.
CacheKey(cls, el_type) ==
    [cls |-> cls,
     el_type |-> IF el_type.kind = "union"
                 THEN [kind |-> "union",
                       members |-> {el_type.args[i] : i \in DOMAIN el_type.args}]
                 ELSE el_type]

\* The class object the n-th run of the body for (cls, el_type) builds.
ClassObject(cls, el_type, n) ==
    [cls |-> "type", base |-> cls, el_type |-> el_type, n |-> n]

\* What a specialization did: the error raised ("none" when it returned), the
\* class returned, and the cache and the body's run counts after it.
Specialized(e, r, c, b) == [err |-> e, ret |-> r, cached |-> c, body_runs |-> b]

\* One run of __getitem__'s body: a new class with a new Element, or the
\* TypeAdapter's error.
BaseCollectionModelMeta__getitem__(cls, el_type, cache, runs) ==
    LET n == runs[<<cls, el_type>>] + 1
        ran == [runs EXCEPT ![<<cls, el_type>>] = n]
    IN  IF Buildable(el_type)
        THEN Specialized("none", ClassObject(cls, el_type, n), cache, ran)
        ELSE Specialized("TypeError", [cls |-> "NoneType"], cache, ran)

\* functools.lru_cache(maxsize=None, typed=True)(func): hashing the arguments
\* raises before anything else; a hit returns the stored class; a miss runs the
\* body and stores what it returns.
lru_cached(cls, el_type, cache, runs) ==
    LET key == CacheKey(cls, el_type)
    IN  IF ~Hashable(el_type)
        THEN Specialized("TypeError", [cls |-> "NoneType"], cache, runs)
        ELSE IF \E c \in cache : c.key = key
        THEN Specialized("none", (CHOOSE c \in cache : c.key = key).class, cache, runs)
        ELSE LET r == BaseCollectionModelMeta__getitem__(cls, el_type, cache, runs)
             IN  IF r.err # "none" THEN r
                 ELSE [r EXCEPT !.cached = cache \cup {[key |-> key, class |-> r.ret]}]

\* tp_cache's inner without the cache: the body runs on every call.
inner_uncached(cls, el_type, cache, runs) ==
    BaseCollectionModelMeta__getitem__(cls, el_type, cache, runs)

\* tp_cache's inner: the cached function first; a TypeError from it, whether
\* from hashing or from the body, is suppressed and the function itself is
\* called.
inner(cls, el_type, cache, runs) ==
    LET r == lru_cached(cls, el_type, cache, runs)
    IN  IF r.err = "TypeError"
        THEN BaseCollectionModelMeta__getitem__(cls, el_type, r.cached, r.body_runs)
        ELSE r

---------------------------------------------------------------------------
(* The validation engine, as far as the collection uses it *)

Valid(v) == [ok |-> TRUE, val |-> v, etype |-> "none"]

Invalid(t) == [ok |-> FALSE, val |-> None, etype |-> t]

\* Whether the entries are exactly {"name": <str>, "age": <int>}.
UserShaped(es, strCls, intCls) ==
    /\ Keys(es) = {StrV("name"), StrV("age")}
    /\ Len(es) = 2
    /\ Lookup(es, StrV("name")).cls = strCls
    /\ Lookup(es, StrV("age")).cls = intCls

UserFrom(es) == User(Lookup(es, StrV("name")).val, Lookup(es, StrV("age")).val)

\* The validator of one class.  An instance is returned as it is; a model class
\* is built from a dict (Python input, lax only) or from a JSON object.
ValidateClass(name, value, strict, json) ==
    IF name = "User" THEN
        IF value.cls = "User" THEN Valid(value)
        ELSE IF json THEN
            IF value.cls = "json_object" /\ UserShaped(value.items, "json_string", "json_number")
            THEN Valid(UserFrom(value.items))
            ELSE Invalid("model_type")
        ELSE IF ~strict /\ value.cls = "dict" /\ UserShaped(value.items, "str", "int")
            THEN Valid(UserFrom(value.items))
        ELSE Invalid("model_type")
    ELSE IF name = "str" THEN
        IF value.cls = "str" THEN Valid(value)
        ELSE IF json /\ value.cls = "json_string" THEN Valid(StrV(value.val))
        ELSE Invalid("string_type")
    ELSE Invalid("is_instance_of")

\* The validator of a union's member, or of a bare annotation.
ValidateMember(tp, value, strict, json) ==
    IF tp.kind = "class" THEN ValidateClass(tp.name, value, strict, json)
    ELSE Invalid("unsupported")

RECURSIVE FirstValid(_, _, _, _)
FirstValid(as, value, strict, json) ==
    IF as = <<>> THEN Invalid("union")
    ELSE LET r == ValidateMember(Head(as), value, strict, json)
         IN  IF r.ok THEN r ELSE FirstValid(Tail(as), value, strict, json)

\* A union tries its members strictly first and then, unless strict, laxly.
ValidateValue(tp, value, strict, json) ==
    IF tp.kind = "union" THEN
        LET exact == FirstValid(tp.args, value, TRUE, json)
        IN  IF exact.ok \/ strict THEN exact
            ELSE FirstValid(tp.args, value, FALSE, json)
    ELSE ValidateMember(tp, value, strict, json)

\* TypeAdapter(el_type).validate_python(value, strict=..., from_attributes=True).
\* No value of the model carries attributes, so from_attributes admits nothing
\* more than the dict input does.
validate_python(tp, value, strict, from_attributes) ==
    ValidateValue(tp, value, strict, FALSE)

---------------------------------------------------------------------------
(* BaseCollectionModel: the validation policy (core.py) *)

\* What one call did: the error it raised ("none" when it returned), the error's
\* type and location, the store it left, the value it returned and the number of
\* runs of the element validator (adapter.validate_python) it made.
Outcome(e, t, l, s, r, c) ==
    [err |-> e, etype |-> t, loc |-> l, store |-> s, ret |-> r, calls |-> c]

Returned(s, r, c) == Outcome("none", "none", <<>>, s, r, c)

\* The strict pre-check: raises is_instance_of at loc unless value is an
\* instance of one of the annotation's types.  "none" when it returns.
_validate_element_type(value, loc) ==
    LET types == get_types_from_annotation(annotation)
    IN  IF ~isinstance(value, types)
        THEN [err |-> "ValidationError", etype |-> "is_instance_of", loc |-> loc]
        ELSE [err |-> "none", etype |-> "none", loc |-> <<>>]

\* _validate_element without the strict pre-check: the validator decides alone.
_validate_element_unchecked(value, loc) ==
    IF ~model_config.validate_assignment
    THEN [err |-> "none", etype |-> "none", loc |-> <<>>, val |-> value, calls |-> 0]
    ELSE LET r == validate_python(annotation, value,
                                  model_config.validate_assignment_strict, TRUE)
         IN  IF r.ok
             THEN [err |-> "none", etype |-> "none", loc |-> <<>>,
                   val |-> r.val, calls |-> 1]
             ELSE [err |-> "ValidationError", etype |-> r.etype,
                   loc |-> wrap_errors_with_loc(<<>>, loc),
                   val |-> None, calls |-> 1]

\* _validate_element returning the value it was given instead of the validator's.
_validate_element_raw(value, loc) ==
    LET r == _validate_element_unchecked(value, loc)
        pre == IF model_config.validate_assignment
                    /\ model_config.validate_assignment_strict
               THEN _validate_element_type(value, loc)
               ELSE [err |-> "none", etype |-> "none", loc |-> <<>>]
    IN  IF pre.err # "none"
        THEN [err |-> pre.err, etype |-> pre.etype, loc |-> pre.loc,
              val |-> None, calls |-> 0]
        ELSE [r EXCEPT !.val = IF r.err = "none" THEN value ELSE None]

\* _validate_element that validates whatever validate_assignment says.
_validate_element_always(value, loc) ==
    LET strict == model_config.validate_assignment_strict
        pre == IF strict THEN _validate_element_type(value, loc)
               ELSE [err |-> "none", etype |-> "none", loc |-> <<>>]
    IN  IF pre.err # "none"
        THEN [err |-> pre.err, etype |-> pre.etype, loc |-> pre.loc,
              val |-> None, calls |-> 0]
        ELSE LET r == validate_python(annotation, value, strict, TRUE)
             IN  IF r.ok
                 THEN [err |-> "none", etype |-> "none", loc |-> <<>>,
                       val |-> r.val, calls |-> 1]
                 ELSE [err |-> "ValidationError", etype |-> r.etype,
                       loc |-> wrap_errors_with_loc(<<>>, loc),
                       val |-> None, calls |-> 1]

\* _validate_element: [err, etype, loc, val, calls]; val is the element to store.
_validate_element(value, loc) ==
    IF ~model_config.validate_assignment
    THEN [err |-> "none", etype |-> "none", loc |-> <<>>, val |-> value, calls |-> 0]
    ELSE LET strict == model_config.validate_assignment_strict
             pre == IF strict THEN _validate_element_type(value, loc)
                    ELSE [err |-> "none", etype |-> "none", loc |-> <<>>]
         IN  IF pre.err # "none"
             THEN [err |-> pre.err, etype |-> pre.etype, loc |-> pre.loc,
                   val |-> None, calls |-> 0]
             ELSE LET r == validate_python(annotation, value, strict, TRUE)
                  IN  IF r.ok
                      THEN [err |-> "none", etype |-> "none", loc |-> <<>>,
                            val |-> r.val, calls |-> 1]
                      ELSE [err |-> "ValidationError", etype |-> r.etype,
                            loc |-> wrap_errors_with_loc(<<>>, loc),
                            val |-> None, calls |-> 1]

---------------------------------------------------------------------------
(* Python's list, as PydanticSequence uses it *)

\* range(start, stop, step) for step # 0, as the sequence of its members.
Range(start, stop, step) ==
    LET n == IF step > 0
             THEN (IF stop > start THEN (stop - start + step - 1) \div step ELSE 0)
             ELSE (IF start > stop THEN (start - stop - step - 1) \div (-step) ELSE 0)
    IN  [k \in 1..n |-> start + (k - 1) * step]

\* Whether list[i] exists for a list of length n.
InRange(i, n) == -n <= i /\ i < n

\* The 1-based position of list[i].
Pos(i, n) == IF i < 0 THEN i + n + 1 ELSE i + 1

\* list.insert(i, x): i is clamped to the ends, never an error.
ListInsert(store, i, x) ==
    LET n == Len(store)
        j == IF i < 0 THEN Max(0, i + n) ELSE Min(i, n)
    IN  SubSeq(store, 1, j) \o <<x>> \o SubSeq(store, j + 1, n)

ListRemove(store, p) == SubSeq(store, 1, p - 1) \o SubSeq(store, p + 1, Len(store))

\* slice.indices(n): the start and stop a slice selects in a list of length n
\* (step # 0), start and stop adjusted as list[slice] adjusts them.
Adjust(x, n, step, dflt) ==
    IF x = None THEN dflt
    ELSE IF x.val < 0
         THEN (IF x.val + n < 0 THEN (IF step < 0 THEN -1 ELSE 0) ELSE x.val + n)
         ELSE (IF x.val >= n THEN (IF step < 0 THEN n - 1 ELSE n) ELSE x.val)

SliceStep(s) == IF s.step = None THEN 1 ELSE s.step.val

\* The positions list[s] selects, in order (0-based), for SliceStep(s) # 0.
SlicePositions(s, n) ==
    LET step == SliceStep(s)
    IN  Range(Adjust(s.start, n, step, IF step < 0 THEN n - 1 ELSE 0),
              Adjust(s.stop, n, step, IF step < 0 THEN -1 ELSE n),
              step)

\* list[s] for SliceStep(s) # 0.
ListSlice(store, s) ==
    LET ps == SlicePositions(s, Len(store))
    IN  [k \in 1..Len(ps) |-> store[ps[k] + 1]]

RECURSIVE Without(_, _, _)
Without(store, drop, p) ==
    IF p > Len(store) THEN <<>>
    ELSE (IF p \in drop THEN <<>> ELSE <<store[p]>>) \o Without(store, drop, p + 1)

\* del list[s] for SliceStep(s) # 0.
ListDelSlice(store, s) ==
    LET ps == SlicePositions(s, Len(store))
    IN  Without(store, {ps[k] + 1 : k \in DOMAIN ps}, 1)

---------------------------------------------------------------------------
(* Construction and bulk validation: the class's own validator *)

Undefined == [cls |-> "PydanticUndefined"]

Raised(e, t, l, s, c) == Outcome(e, t, l, s, None, c)

\* The root field of a specialized class is annotated List[el_type] (core.py,
\* __getitem__), whatever the container: the input must be a list (a JSON array
\* for JSON input) and every item is validated laxly against the annotation.
\* The first invalid item's index is the location reported.
RECURSIVE ValidateItems(_, _, _, _)
ValidateItems(items, k, json, acc) ==
    IF k > Len(items) THEN Returned(acc, Instance(acc), 0)
    ELSE LET r == ValidateValue(annotation, items[k], FALSE, json)
         IN  IF r.ok THEN ValidateItems(items, k + 1, json, Append(acc, r.val))
             ELSE Raised("ValidationError", r.etype, <<IntV(k - 1)>>, <<>>, 0)

ValidateRoot(obj, json) ==
    IF obj.cls # (IF json THEN "json_array" ELSE "list")
    THEN Raised("ValidationError", "list_type", <<>>, <<>>, 0)
    ELSE ValidateItems(obj.items, 1, json, <<>>)

\* RootModel.__init__(root=PydanticUndefined, **data), which both containers'
\* initializers end in.
RootModel__init__(rootArg, data) ==
    IF data # <<>>
    THEN IF rootArg # Undefined
         THEN Raised("ValueError", "root_and_keywords", <<>>, <<>>, 0)
         ELSE ValidateRoot(DictV(data), FALSE)
    ELSE ValidateRoot(rootArg, FALSE)

---------------------------------------------------------------------------
(* PydanticSequence (sequence.py) *)

\* __init__ putting the positional elements before the existing sequence.
Sequence__init___data_first(data, rootArg, kwargs) ==
    LET r0 == IF rootArg = None THEN <<>> ELSE rootArg.items
    IN  IF r0 # <<>> /\ kwargs # <<>>
        THEN Raised("ValueError", "Cannot provide both data and **kwargs.", <<>>, <<>>, 0)
        ELSE IF kwargs # <<>>
        THEN RootModel__init__(Undefined, kwargs)
        ELSE RootModel__init__(ListV(data \o r0), <<>>)

\* __init__(*data, root=None, **kwargs): ret is the new instance.
Sequence__init__(data, rootArg, kwargs) ==
    LET r0 == IF rootArg = None THEN <<>> ELSE rootArg.items
    IN  IF r0 # <<>> /\ kwargs # <<>>
        THEN Raised("ValueError", "Cannot provide both data and **kwargs.", <<>>, <<>>, 0)
        ELSE IF kwargs # <<>>
        THEN RootModel__init__(Undefined, kwargs)
        ELSE RootModel__init__(ListV(r0 \o data), <<>>)

_validate_sequence_element(value, index) == _validate_element(value, <<IntV(index)>>)

\* range(start, stop, step or 1) with the defaults the method fills in.
_get_index_range(store, index) ==
    LET step == IF index.step = None THEN 1 ELSE index.step.val
        start == IF index.start = None THEN 0 ELSE index.start.val
        stop == IF index.stop = None THEN Len(store) ELSE index.stop.val
    IN  Range(start, stop, IF step = 0 THEN 1 ELSE step)

\* self.__class__(sublist) of a slice: the persistent class's initializer has
\* keyword-only parameters without defaults, so the call raises before it runs.
Sequence__getitem__(store, index) ==
    IF index.cls = "slice"
    THEN IF SliceStep(index) = 0
         THEN Raised("ValueError", "slice step cannot be zero", <<>>, store, 0)
         ELSE IF persistence_db # None
         THEN Raised("TypeError", "missing required keyword-only arguments", <<>>,
                     store, 0)
         ELSE LET r == Sequence__init__(<<ListV(ListSlice(store, index))>>, None, <<>>)
              IN  [r EXCEPT !.store = store]
    ELSE IF InRange(index.val, Len(store))
         THEN Returned(store, store[Pos(index.val, Len(store))], 0)
         ELSE Raised("IndexError", "list index out of range", <<>>, store, 0)

\* The loop of __setitem__ over zip(range, value, strict=True): pairs are taken
\* and written one at a time; zip raises only when one side runs out first.
RECURSIVE ZipSetItems(_, _, _, _)
ZipSetItems(store, idxs, vals, calls) ==
    IF idxs = <<>> /\ vals = <<>> THEN Returned(store, None, calls)
    ELSE IF idxs = <<>>
    THEN Raised("ValueError", "zip() argument 2 is longer than argument 1", <<>>, store, calls)
    ELSE IF vals = <<>>
    THEN Raised("ValueError", "zip() argument 2 is shorter than argument 1", <<>>, store, calls)
    ELSE LET i == Head(idxs)
             r == _validate_sequence_element(Head(vals), i)
         IN  IF r.err # "none"
             THEN Raised(r.err, r.etype, r.loc, store, calls + r.calls)
             ELSE IF ~InRange(i, Len(store))
             THEN Raised("IndexError", "list assignment index out of range", <<>>,
                         store, calls + r.calls)
             ELSE ZipSetItems([store EXCEPT ![Pos(i, Len(store))] = r.val],
                              Tail(idxs), Tail(vals), calls + r.calls)

\* __setitem__ writing the value before it validates it.
Sequence__setitem___write_first(store, index, value) ==
    IF index.cls = "slice"
    THEN ZipSetItems(store, _get_index_range(store, index), value.items, 0)
    ELSE IF ~InRange(index.val, Len(store))
    THEN Raised("IndexError", "list assignment index out of range", <<>>, store, 0)
    ELSE LET r == _validate_sequence_element(value, index.val)
             written == [store EXCEPT ![Pos(index.val, Len(store))] = value]
         IN  IF r.err # "none" THEN Raised(r.err, r.etype, r.loc, written, r.calls)
             ELSE Returned([store EXCEPT ![Pos(index.val, Len(store))] = r.val],
                           None, r.calls)

Sequence__setitem__(store, index, value) ==
    IF index.cls = "slice"
    THEN ZipSetItems(store, _get_index_range(store, index), value.items, 0)
    ELSE LET r == _validate_sequence_element(value, index.val)
         IN  IF r.err # "none" THEN Raised(r.err, r.etype, r.loc, store, r.calls)
             ELSE IF ~InRange(index.val, Len(store))
             THEN Raised("IndexError", "list assignment index out of range", <<>>,
                         store, r.calls)
             ELSE Returned([store EXCEPT ![Pos(index.val, Len(store))] = r.val],
                           None, r.calls)

Sequence__delitem__(store, index) ==
    IF index.cls = "slice"
    THEN IF SliceStep(index) = 0
         THEN Raised("ValueError", "slice step cannot be zero", <<>>, store, 0)
         ELSE Returned(ListDelSlice(store, index), None, 0)
    ELSE IF InRange(index.val, Len(store))
         THEN Returned(ListRemove(store, Pos(index.val, Len(store))), None, 0)
         ELSE Raised("IndexError", "list assignment index out of range", <<>>, store, 0)

\* insert placing the element one position early.
insert_one_early(store, index, value) ==
    LET r == _validate_sequence_element(value, index)
    IN  IF r.err # "none" THEN Raised(r.err, r.etype, r.loc, store, r.calls)
        ELSE Returned(ListInsert(store, Max(index - 1, 0), r.val), None, r.calls)

insert(store, index, value) ==
    LET r == _validate_sequence_element(value, index)
    IN  IF r.err # "none" THEN Raised(r.err, r.etype, r.loc, store, r.calls)
        ELSE Returned(ListInsert(store, index, r.val), None, r.calls)

\* append validating and inserting at the length the store will have.
append_at_new_length(store, value) == insert(store, Len(store) + 1, value)

\* MutableSequence.append, which the class inherits: self.insert(len(self), value).
append(store, value) == insert(store, Len(store), value)

\* The caller's key functions: lambda u: u.age, lambda u: -u.age and
\* lambda u: u.age // 2.  Only an element model has the attribute.
HasSortKey(x) == x.cls = "User"

SortKey(key, x) ==
    IF key = "age" THEN x.age
    ELSE IF key = "neg_age" THEN 0 - x.age
    ELSE x.age \div 2

\* x put behind every element that sorts before it or equal to it.
RECURSIVE InsertSorted(_, _, _, _)
InsertSorted(xs, x, key, reverse) ==
    IF xs = <<>> THEN <<x>>
    ELSE LET stays == IF reverse THEN SortKey(key, Head(xs)) >= SortKey(key, x)
                      ELSE SortKey(key, Head(xs)) <= SortKey(key, x)
         IN  IF stays THEN <<Head(xs)>> \o InsertSorted(Tail(xs), x, key, reverse)
             ELSE <<x>> \o xs

\* sorted(xs, key=key, reverse=reverse): stable in both directions.
RECURSIVE sorted(_, _, _, _)
sorted(xs, key, reverse, acc) ==
    IF xs = <<>> THEN acc
    ELSE sorted(Tail(xs), key, reverse, InsertSorted(acc, Head(xs), key, reverse))

\* sort that takes no notice of reverse.
sort_ignoring_reverse(store, key, reverse) ==
    IF \E i \in DOMAIN store : ~HasSortKey(store[i])
    THEN Raised("AttributeError", "age", <<>>, store, 0)
    ELSE LET new == sorted(store, key, FALSE, <<>>)
         IN  IF model_config.validate_assignment
             THEN LET v == ValidateRoot(ListV(new), FALSE)
                  IN  IF v.err # "none" THEN Raised(v.err, v.etype, v.loc, store, 0)
                      ELSE Returned(v.store, None, 0)
             ELSE Returned(new, None, 0)

\* sort(key, reverse): self.root = sorted(self.root, key=key, reverse=reverse).
\* The assignment to the field is validated by the class's validator when the
\* class's validate_assignment is on.
sort(store, key, reverse) ==
    IF \E i \in DOMAIN store : ~HasSortKey(store[i])
    THEN Raised("AttributeError", "age", <<>>, store, 0)
    ELSE LET new == sorted(store, key, reverse, <<>>)
         IN  IF model_config.validate_assignment
             THEN LET v == ValidateRoot(ListV(new), FALSE)
                  IN  IF v.err # "none" THEN Raised(v.err, v.etype, v.loc, store, 0)
                      ELSE Returned(v.store, None, 0)
             ELSE Returned(new, None, 0)

---------------------------------------------------------------------------
(* PersistentPydanticSequence (sequence.py) and its backend (api.py) *)

\* A backend, as the number of calls each of its methods has received.
DataBase(a, l, d, c) ==
    [cls |-> "DataBase", add |-> a, load |-> l, delete |-> d, commit |-> c]

\* DataBase.commit(), received once more.
DataBase_commit(db) == [db EXCEPT !.commit = @ + 1]

\* __init__(*data, persistence_db=db, ...): the sequence's own initializer, then
\* the three attributes are kept; the backend receives no call.
Persistent__init__(data, db, rootArg, kwargs) == Sequence__init__(data, rootArg, kwargs)

\* commit() that keeps the call to itself.
commit_not_forwarded(db) == db

\* commit(): self.__persistence_db.commit().  The backend after the call.
commit(db) == DataBase_commit(db)

---------------------------------------------------------------------------
(* PydanticMapping (mapping.py) *)

\* dict[k] = v: a present key keeps its place, a new key goes last.
DictSet(es, k, v) ==
    IF HasKey(es, k)
    THEN [i \in DOMAIN es |-> IF es[i].key = k THEN Entry(k, v) ELSE es[i]]
    ELSE Append(es, Entry(k, v))

RECURSIVE DictMerge(_, _)
DictMerge(a, b) ==
    IF b = <<>> THEN a ELSE DictMerge(DictSet(a, Head(b).key, Head(b).value), Tail(b))

DictDel(es, k) == SelectSeq(es, LAMBDA e : e.key # k)

\* __init__(root=None, **data): ret is the new instance.
Mapping__init__(rootArg, data) ==
    LET r0 == IF rootArg = None THEN <<>> ELSE rootArg.items
    IN  RootModel__init__(DictV(DictMerge(r0, data)), <<>>)

Mapping__getitem__(store, key) ==
    IF HasKey(store, key) THEN Returned(store, Lookup(store, key), 0)
    ELSE Raised("KeyError", "key", <<>>, store, 0)

Mapping__setitem__(store, key, value) ==
    LET r == _validate_element(value, <<StrV(PyStr(key))>>)
    IN  IF r.err # "none" THEN Raised(r.err, r.etype, r.loc, store, r.calls)
        ELSE Returned(DictSet(store, key, r.val), None, r.calls)

\* __delitem__ that ignores a key the mapping lacks (root.pop(key, None)).
Mapping__delitem___discard(store, key) == Returned(DictDel(store, key), None, 0)

Mapping__delitem__(store, key) ==
    IF HasKey(store, key) THEN Returned(DictDel(store, key), None, 0)
    ELSE Raised("KeyError", "key", <<>>, store, 0)

---------------------------------------------------------------------------
(* Bulk encoding and validation (model_dump, model_dump_json, model_validate, *)
(* model_validate_json), which the containers inherit from RootModel          *)

\* An element as model_dump gives it: a model instance becomes its dict.
DumpValue(v) == IF v.cls = "User" THEN UserData(v.name, v.age) ELSE v

\* An element as model_dump_json gives it.
RECURSIVE ToJson(_)
ToJson(v) ==
    IF v.cls = "User" THEN ToJson(UserData(v.name, v.age))
    ELSE IF v.cls = "dict"
    THEN JObject([i \in DOMAIN v.items |->
                    Entry(StrV(PyStr(v.items[i].key)), ToJson(v.items[i].value))])
    ELSE IF v.cls = "list" THEN JArray([i \in DOMAIN v.items |-> ToJson(v.items[i])])
    ELSE IF v.cls = "int" THEN JNumber(v.val)
    ELSE JString(v.val)

model_dump(store) ==
    IF kind = "sequence"
    THEN ListV([i \in DOMAIN store |-> DumpValue(store[i])])
    ELSE DictV([i \in DOMAIN store |-> Entry(store[i].key, DumpValue(store[i].value))])

model_dump_json(store) ==
    IF kind = "sequence"
    THEN ToJson(ListV(store))
    ELSE ToJson(DictV(store))

\* Both run the class validator on the whole input.  (A dict input reaches it
\* through the class's own __init__, as the root it was given.)
model_validate(obj) == ValidateRoot(obj, FALSE)

model_validate_json(text) == ValidateRoot(text, TRUE)

---------------------------------------------------------------------------
(* Inputs *)

RECURSIVE SeqsUpTo(_, _)
SeqsUpTo(S, n) ==
    IF n = 0 THEN {<<>>}
    ELSE LET shorter == SeqsUpTo(S, n - 1)
         IN  shorter \cup {Append(q, x) : q \in shorter, x \in S}

U1 == User("A", 0)

U2 == User("B", 1)

\* Values a caller passes: two users, the record of the first, a bare string.
RawValues == {U1, U2, UserData("A", 0), StrV("user")}

Annotations == {ClassT("User"), UnionT(<<ClassT("User"), ClassT("str")>>)}

Indices == {IntV(i) : i \in -(MaxLen + 1)..MaxLen}

Slices ==
    {Slice(a, b, c) : a \in {None, IntV(1), IntV(-1)},
                      b \in {None, IntV(-1), IntV(MaxLen + 1)},
                      c \in {None, IntV(-1), IntV(0)}}

Repeat(x, n) == [i \in 1..n |-> x]

\* The value lists of a slice assignment: users only, or users and then a string.
ValueLists ==
    {ListV(Repeat(U2, n)) : n \in 0..MaxLen}
    \cup {ListV(Append(Repeat(U2, n), StrV("user"))) : n \in 0..(MaxLen - 1)}

\* Constructor arguments: positional elements, root=, keywords.
DataArgs == {<<>>, <<U2>>, <<U2, U1>>, <<UserData("A", 0)>>, <<StrV("user")>>}

RootArgs == {None, ListV(<<>>), ListV(<<U1>>), ListV(<<UserData("A", 0)>>)}

KwArgs == {<<>>, <<Entry(StrV("x"), U1)>>}

\* The classes a caller specializes and the element types given to them: the
\* two annotations of the instances, the union written the other way round, an
\* unhashable annotation and a class no schema can be derived from.
Bases == {"PydanticSequence", "PydanticMapping", "PersistentPydanticSequence"}

\* The two containers, which a caller specializes with any of the element types.
Containers == {"PydanticSequence", "PydanticMapping"}

ElTypes ==
    Annotations \cup {UnionT(<<ClassT("str"), ClassT("User")>>),
                      AnnotatedT("User", "dict"),
                      ClassT("Plain")}

\* The key functions a caller sorts by.
SortKeys == {"age", "neg_age", "half_age"}

MapKeys == {StrV("a"), StrV("b"), IntV(1)}

MapRootArgs == {None, DictV(<<Entry(StrV("a"), U1)>>)}

MapDataArgs == {<<>>, <<Entry(StrV("b"), U2)>>}

---------------------------------------------------------------------------
(* The state machine *)

CallArgs(d, r, k) == [cls |-> "args", data |-> d, root |-> r, kwargs |-> k]

\* The record of a call o of operation op on the store found in root.
Call(op, index, value, o) ==
    [op |-> op, index |-> index, value |-> value, pre |-> root,
     err |-> o.err, etype |-> o.etype, loc |-> o.loc, ret |-> o.ret,
     calls |-> o.calls]

\* Between two calls nothing of the previous call is kept.
NoCall ==
    [op |-> "none", index |-> None, value |-> None, pre |-> <<>>,
     err |-> "none", etype |-> "none", loc |-> <<>>, ret |-> None, calls |-> 0]

\* Every call starts from an instance at rest and leaves the class as it is.
AtRest(k) == last.op = "none" /\ kind = k

\* The record of a specialization cls[el_type] made with cache and run counts
\* as found in cached and body_runs.
Specialization(cls, el_type, o) ==
    [op |-> "__getitem__", cls |-> cls, el_type |-> el_type,
     err |-> o.err, ret |-> o.ret, pre |-> cached, pre_runs |-> body_runs]

NoRuns == [k \in Bases \X ElTypes |-> 0]

\* The first specialization a program makes, of a class with a hashable
\* element type the body builds a class from: a miss, answered by the body.
FirstSpecialization(cls, el_type) ==
    [op |-> "__getitem__", cls |-> cls, el_type |-> el_type, err |-> "none",
     ret |-> ClassObject(cls, el_type, 1), pre |-> {}, pre_runs |-> NoRuns]

\* The class of an instance of kind k with backend db.
BaseOf(k, db) ==
    IF k = "mapping" THEN "PydanticMapping"
    ELSE IF db = None THEN "PydanticSequence"
    ELSE "PersistentPydanticSequence"

\* No operation but commit reaches the backend, and no operation on an
\* instance specializes a class.
Frame ==
    UNCHANGED <<kind, annotation, model_config, persistence_db, commit_calls,
                cached, body_runs, specialized>>

\* A class is specialized and an empty instance of it exists: PydanticSequence[T](),
\* or PersistentPydanticSequence[T](persistence_db=db, ...) with a backend that
\* has received no call, for a sequence; model_construct(root={}) for a mapping.
Init ==
    /\ kind \in {"sequence", "mapping"}
    /\ annotation \in Annotations
    /\ model_config \in [validate_assignment : BOOLEAN,
                         validate_assignment_strict : BOOLEAN]
    /\ root = <<>>
    /\ last = NoCall
    /\ persistence_db \in (IF kind = "sequence" THEN {None, DataBase(0, 0, 0, 0)}
                           ELSE {None})
    /\ commit_calls = 0
    /\ specialized = FirstSpecialization(BaseOf(kind, persistence_db), annotation)
    /\ cached = {[key |-> CacheKey(specialized.cls, specialized.el_type),
                  class |-> specialized.ret]}
    /\ body_runs = [NoRuns EXCEPT ![<<specialized.cls, specialized.el_type>>] = 1]

\* cls(*data, root=rootArg, **kwargs); on success the new instance is observed.
Construct ==
    /\ AtRest("sequence")
    /\ \E data \in DataArgs, rootArg \in RootArgs, kwargs \in KwArgs :
        /\ Len(data) + (IF rootArg = None THEN 0 ELSE Len(rootArg.items)) <= MaxLen
        /\ LET o == IF persistence_db = None THEN Sequence__init__(data, rootArg, kwargs)
                    ELSE Persistent__init__(data, persistence_db, rootArg, kwargs)
           IN  /\ last' = Call("__init__", None, CallArgs(data, rootArg, kwargs), o)
               /\ root' = IF o.err = "none" THEN o.ret.root ELSE root
    /\ Frame

\* self[index], index an integer or a slice.
GetItem ==
    /\ AtRest("sequence")
    /\ \E index \in Indices \cup Slices :
        LET o == Sequence__getitem__(root, index)
        IN  /\ last' = Call("__getitem__", index, None, o)
            /\ root' = o.store
    /\ Frame

\* self[index] = value, or self[slice] = values.
SetItem ==
    /\ AtRest("sequence")
    /\ \E iv \in (Indices \X RawValues) \cup (Slices \X ValueLists) :
        LET o == Sequence__setitem__(root, iv[1], iv[2])
        IN  /\ last' = Call("__setitem__", iv[1], iv[2], o)
            /\ root' = o.store
    /\ Frame

\* del self[index], index an integer or a slice.
DelItem ==
    /\ AtRest("sequence")
    /\ \E index \in Indices \cup Slices :
        LET o == Sequence__delitem__(root, index)
        IN  /\ last' = Call("__delitem__", index, None, o)
            /\ root' = o.store
    /\ Frame

Insert ==
    /\ AtRest("sequence")
    /\ Len(root) < MaxLen
    /\ \E index \in Indices, value \in RawValues :
        LET o == insert(root, index.val, value)
        IN  /\ last' = Call("insert", index, value, o)
            /\ root' = o.store
    /\ Frame

AppendItem ==
    /\ AtRest("sequence")
    /\ Len(root) < MaxLen
    /\ \E value \in RawValues :
        LET o == append(root, value)
        IN  /\ last' = Call("append", None, value, o)
            /\ root' = o.store
    /\ Frame

\* self.sort(key, reverse).
Sort ==
    /\ AtRest("sequence")
    /\ \E key \in SortKeys, reverse \in BOOLEAN :
        LET o == sort(root, key, reverse)
        IN  /\ last' = Call("sort", [cls |-> "args", key |-> key, reverse |-> reverse],
                            None, o)
            /\ root' = o.store
    /\ Frame

\* self.commit() on a persistent sequence.
Commit ==
    /\ AtRest("sequence")
    /\ persistence_db # None
    /\ commit_calls < MaxCommits
    /\ persistence_db' = commit(persistence_db)
    /\ commit_calls' = commit_calls + 1
    /\ last' = Call("commit", None, None, Returned(root, None, 0))
    /\ UNCHANGED <<kind, annotation, model_config, root, cached, body_runs, specialized>>

\* cls(rootArg, **data) of a mapping class.
MapConstruct ==
    /\ AtRest("mapping")
    /\ \E rootArg \in MapRootArgs, data \in MapDataArgs :
        LET o == Mapping__init__(rootArg, data)
        IN  /\ last' = Call("__init__", None, CallArgs(<<>>, rootArg, data), o)
            /\ root' = IF o.err = "none" THEN o.ret.root ELSE root
    /\ Frame

MapGetItem ==
    /\ AtRest("mapping")
    /\ \E key \in MapKeys :
        LET o == Mapping__getitem__(root, key)
        IN  /\ last' = Call("__getitem__", key, None, o)
            /\ root' = o.store
    /\ Frame

MapSetItem ==
    /\ AtRest("mapping")
    /\ \E key \in MapKeys, value \in RawValues :
        /\ HasKey(root, key) \/ Len(root) < MaxLen
        /\ LET o == Mapping__setitem__(root, key, value)
           IN  /\ last' = Call("__setitem__", key, value, o)
               /\ root' = o.store
    /\ Frame

MapDelItem ==
    /\ AtRest("mapping")
    /\ \E key \in MapKeys :
        LET o == Mapping__delitem__(root, key)
        IN  /\ last' = Call("__delitem__", key, None, o)
            /\ root' = o.store
    /\ Frame

\* cls.model_validate(self.model_dump()); ret is the instance it gives.
DumpValidate ==
    /\ last.op = "none"
    /\ LET o == model_validate(model_dump(root))
       IN  last' = Call("model_validate", None, model_dump(root), o)
    /\ UNCHANGED root
    /\ Frame

\* cls.model_validate_json(self.model_dump_json()).
DumpValidateJson ==
    /\ last.op = "none"
    /\ LET o == model_validate_json(model_dump_json(root))
       IN  last' = Call("model_validate_json", None, model_dump_json(root), o)
    /\ UNCHANGED root
    /\ Frame

\* The caller has looked at what the call gave; the instance is at rest again.
Return ==
    /\ last.op # "none"
    /\ last' = NoCall
    /\ UNCHANGED root
    /\ Frame

Next ==
    \/ Construct
    \/ GetItem
    \/ SetItem
    \/ DelItem
    \/ Insert
    \/ AppendItem
    \/ Sort
    \/ Commit
    \/ MapConstruct
    \/ MapGetItem
    \/ MapSetItem
    \/ MapDelItem
    \/ DumpValidate
    \/ DumpValidateJson
    \/ Return

Spec == Init /\ [][Next]_vars

---------------------------------------------------------------------------
(* Specialization on its own: classes are specialized, no instance is made *)

InitCache ==
    /\ kind = "none"
    /\ annotation = None
    /\ model_config = [validate_assignment |-> TRUE, validate_assignment_strict |-> TRUE]
    /\ root = <<>>
    /\ last = NoCall
    /\ persistence_db = None
    /\ commit_calls = 0
    /\ cached = {}
    /\ body_runs = NoRuns
    /\ specialized =
        [op |-> "none", cls |-> "none", el_type |-> None, err |-> "none",
         ret |-> None, pre |-> {}, pre_runs |-> NoRuns]

\* cls[el_type].
Specialize ==
    /\ \E cls \in Containers, el_type \in ElTypes :
        LET o == inner(cls, el_type, cached, body_runs)
        IN  /\ o.body_runs[<<cls, el_type>>] <= MaxRuns
            /\ specialized' = Specialization(cls, el_type, o)
            /\ cached' = o.cached
            /\ body_runs' = o.body_runs
    /\ UNCHANGED <<kind, annotation, model_config, root, last, persistence_db,
                   commit_calls>>

NextCache == Specialize

SpecCache == InitCache /\ [][NextCache]_vars

---------------------------------------------------------------------------
(* Vocabulary of the properties *)

\* The classes the annotation names: itself, or the members of a union.
MemberClasses(tp) ==
    IF tp.kind = "union" THEN {tp.args[i].name : i \in DOMAIN tp.args} ELSE {tp.name}

\* A value the element type accepts as it is: an instance of a named class.
IsElement(v) == v.cls \in MemberClasses(annotation)

\* A plain record with the shape of the element model.
IsUserRecord(v) == v.cls = "dict" /\ UserShaped(v.items, "str", "int")

Strict == model_config.validate_assignment /\ model_config.validate_assignment_strict

NonStrict == model_config.validate_assignment /\ ~model_config.validate_assignment_strict

SeqCall(op) == kind = "sequence" /\ last.op = op

MapCall(op) == kind = "mapping" /\ last.op = op

\* self[i] = value with an integer i.
SetIndexCall == SeqCall("__setitem__") /\ last.index.cls = "int"

SetSliceCall == SeqCall("__setitem__") /\ last.index.cls = "slice"

\* A mutation of one element: set by integer, insert, append, mapping set.
SingleMutation ==
    SetIndexCall \/ SeqCall("insert") \/ SeqCall("append") \/ MapCall("__setitem__")

\* Where the call's element goes, as the error location it is validated at.
MutationLoc ==
    IF kind = "mapping" THEN <<StrV(PyStr(last.index))>>
    ELSE IF last.op = "append" THEN <<IntV(Len(last.pre))>>
    ELSE <<last.index>>

\* The store is the store before the call, but for position p holding v.
SameBut(p, v) ==
    /\ Len(root) = Len(last.pre)
    /\ \A q \in DOMAIN root : root[q] = IF q = p THEN v ELSE last.pre[q]

\* The mapping is the mapping before the call, but for key k holding v.
SameButKey(k, v) ==
    /\ Keys(root) = Keys(last.pre) \cup {k}
    /\ Len(root) = Cardinality(Keys(root))
    /\ Lookup(root, k) = v
    /\ \A j \in Keys(last.pre) \ {k} : Lookup(root, j) = Lookup(last.pre, j)

---------------------------------------------------------------------------
(* C1 *)

\* C1: for a value e that is an instance of the element type, in every state:
\* append(e) makes the sequence one longer with e last and the earlier elements
\* as they were; seq[i] = e for an in-range i puts e at i and changes nothing
\* else; m[k] = e makes m[k] == e, adds k when absent, and changes no other entry.
C1_ElementIsStored ==
    /\ (SeqCall("append") /\ IsElement(last.value)) =>
          /\ last.err = "none"
          /\ root = Append(last.pre, last.value)
    /\ (SetIndexCall /\ IsElement(last.value)
            /\ InRange(last.index.val, Len(last.pre))) =>
          /\ last.err = "none"
          /\ SameBut(Pos(last.index.val, Len(last.pre)), last.value)
    /\ (MapCall("__setitem__") /\ IsElement(last.value)) =>
          /\ last.err = "none"
          /\ SameButKey(last.index, last.value)

\* An element appended to a non-empty sequence of a strict class.
C1_Witness ==
    /\ SeqCall("append") /\ IsElement(last.value) /\ Strict
    /\ Len(last.pre) = 1 /\ last.pre[1] # last.value
    /\ Len(root) = 2

---------------------------------------------------------------------------
(* C2 *)

\* C2: under the strict policy a mutation of one element (sequence set, insert,
\* append, mapping set) with a value that is no instance of a class of the
\* annotation raises a validation error at the operation's location, and the
\* element validator is not run.
C2_StrictRejectsBeforeValidator ==
    (Strict /\ SingleMutation /\ ~IsElement(last.value)) =>
        /\ last.err = "ValidationError"
        /\ last.etype = "is_instance_of"
        /\ last.loc = MutationLoc
        /\ last.calls = 0

\* A record of the right shape set under a key of a strict mapping of a union.
C2_Witness ==
    /\ Strict /\ MapCall("__setitem__") /\ IsUserRecord(last.value)
    /\ annotation.kind = "union"
    /\ last.err = "ValidationError"
    /\ last.loc = <<StrV("a")>>

---------------------------------------------------------------------------
(* C3 *)

\* The element a call stored, for a call that names one position or key.
Stored ==
    IF kind = "mapping" THEN Lookup(root, last.index)
    ELSE IF last.op = "append" THEN root[Len(root)]
    ELSE root[Pos(last.index.val, Len(last.pre))]

\* C3: on a class with strict off and validation on, appending or setting a
\* plain record of the element's shape succeeds and stores the element built
\* from the record, not the record; on a strict class the same call raises a
\* validation error.
C3_NonStrictCoercesRecord ==
    (/\ SeqCall("append") \/ MapCall("__setitem__")
           \/ (SetIndexCall /\ InRange(last.index.val, Len(last.pre)))
     /\ IsUserRecord(last.value)) =>
        /\ NonStrict =>
              /\ last.err = "none"
              /\ Stored = User(Lookup(last.value.items, StrV("name")).val,
                               Lookup(last.value.items, StrV("age")).val)
              /\ Stored.cls = "User"
        /\ Strict => last.err = "ValidationError"

\* A record appended to a non-strict sequence and stored as a user.
C3_Witness ==
    /\ NonStrict /\ SeqCall("append") /\ IsUserRecord(last.value)
    /\ Len(last.pre) = 1
    /\ root[2] = U1

---------------------------------------------------------------------------
(* C4 *)

\* C4: when a mutation of one element fails, strict or not, the store is the
\* store before the call (the one error is the call's outcome).
C4_FailedMutationKeepsStore ==
    (SingleMutation /\ last.err # "none") => root = last.pre

\* A bare string appended to a non-strict sequence of users: the validator ran
\* and refused it.
C4_Witness ==
    /\ NonStrict /\ SeqCall("append") /\ last.value = StrV("user")
    /\ last.err = "ValidationError" /\ last.calls = 1
    /\ Len(root) = 1

---------------------------------------------------------------------------
(* C5 *)

AllElements(xs) == \A i \in DOMAIN xs : IsElement(xs[i])

\* C5, where every index of the slice's range is a position of the store:
\* assigning k valid values to a slice whose range has m # k indices raises the
\* arity error and leaves the store as it was.
C5_ArityErrorKeepsStore ==
    LET idxs == _get_index_range(last.pre, last.index)
    IN  (/\ SetSliceCall
         /\ AllElements(last.value.items)
         /\ \A j \in DOMAIN idxs : InRange(idxs[j], Len(last.pre))
         /\ Len(idxs) # Len(last.value.items)) =>
            /\ last.err = "ValueError"
            /\ root = last.pre

---------------------------------------------------------------------------
(* C6 *)

\* C6: get(s) for a slice s returns, without error, a new instance of the class
\* whose store is the sub-range s selects, and get(i) for an in-range integer i
\* returns the element at i; the sequence is unchanged.
C6_GetReturnsSubrange ==
    SeqCall("__getitem__") =>
        /\ root = last.pre
        /\ (last.index.cls = "slice" /\ SliceStep(last.index) # 0) =>
              /\ last.err = "none"
              /\ last.ret = Instance(ListSlice(last.pre, last.index))
        /\ (last.index.cls = "int" /\ InRange(last.index.val, Len(last.pre))) =>
              /\ last.err = "none"
              /\ last.ret = last.pre[Pos(last.index.val, Len(last.pre))]

---------------------------------------------------------------------------
(* C7 *)

GivenRoot == IF last.value.root = None THEN <<>> ELSE last.value.root.items

\* C7: keywords given together with positional elements, or with a non-empty
\* existing sequence, make construction fail with the conflict error, and no
\* instance is produced.
C7_MixedConstructionConflicts ==
    (/\ SeqCall("__init__")
     /\ last.value.kwargs # <<>>
     /\ last.value.data # <<>> \/ GivenRoot # <<>>) =>
        /\ last.err = "ValueError"
        /\ last.etype = "Cannot provide both data and **kwargs."
        /\ last.ret = None

---------------------------------------------------------------------------
(* C8 *)

\* C8: constructing from an existing sequence R and positional elements d, all
\* of them elements, with no keywords, gives the store R followed by d.
C8_ConstructConcatenates ==
    (/\ SeqCall("__init__")
     /\ last.value.kwargs = <<>>
     /\ AllElements(GivenRoot) /\ AllElements(last.value.data)) =>
        /\ last.err = "none"
        /\ root = GivenRoot \o last.value.data
        /\ last.ret = Instance(root)

\* One existing element followed by one positional element.
C8_Witness ==
    /\ SeqCall("__init__")
    /\ GivenRoot = <<U1>> /\ last.value.data = <<U2>> /\ last.value.kwargs = <<>>
    /\ root = <<U1, U2>>

---------------------------------------------------------------------------
(* C9 *)

StoredValues == IF kind = "mapping" THEN [i \in DOMAIN root |-> root[i].value] ELSE root

\* C9: for a sequence or mapping holding elements only, validating its dump
\* (Python or JSON) gives a collection with the same contents.
C9_DumpValidateRoundTrip ==
    (last.op \in {"model_validate", "model_validate_json"} /\ AllElements(StoredValues)) =>
        /\ last.err = "none"
        /\ last.ret = Instance(root)

---------------------------------------------------------------------------
(* C10 *)

\* C10: get and delete of a key the mapping lacks raise KeyError and leave the
\* store as it was; delete of a present key removes that entry and keeps every
\* other entry, in the order they had.
C10_MappingKeys ==
    /\ ((MapCall("__getitem__") \/ MapCall("__delitem__"))
            /\ ~HasKey(last.pre, last.index)) =>
          /\ last.err = "KeyError"
          /\ root = last.pre
    /\ (MapCall("__delitem__") /\ HasKey(last.pre, last.index)) =>
          /\ last.err = "none"
          /\ \E p \in DOMAIN last.pre :
                /\ last.pre[p].key = last.index
                /\ root = SubSeq(last.pre, 1, p - 1) \o SubSeq(last.pre, p + 1, Len(last.pre))
          /\ ~HasKey(root, last.index)

\* The first of two entries deleted: the second remains.
C10_Witness ==
    /\ MapCall("__delitem__") /\ last.err = "none"
    /\ Len(last.pre) = 2 /\ last.pre[1].key = last.index
    /\ root = <<last.pre[2]>>


---------------------------------------------------------------------------
(* C11 *)

\* The store holds the elements of the store before the call, each as often.
Permutation(xs, ys) ==
    /\ Len(xs) = Len(ys)
    /\ \A i \in DOMAIN xs :
        Cardinality({j \in DOMAIN xs : xs[j] = xs[i]})
            = Cardinality({j \in DOMAIN ys : ys[j] = xs[i]})

\* xs in the order sort(key, reverse) promises.
Ordered(xs, key, reverse) ==
    \A i, j \in DOMAIN xs :
        i < j => IF reverse THEN SortKey(key, xs[i]) >= SortKey(key, xs[j])
                 ELSE SortKey(key, xs[i]) <= SortKey(key, xs[j])

\* C11: sort(key, reverse) on a sequence of element models raises nothing,
\* returns nothing, and leaves the store a permutation of the store before the
\* call, non-decreasing by key when reverse is false and non-increasing when it
\* is true (so a descending sort followed by an ascending one ends ascending).
C11_SortOrdersPermutation ==
    (SeqCall("sort") /\ \A i \in DOMAIN last.pre : HasSortKey(last.pre[i]))
        => /\ last.err = "none"
           /\ last.ret = None
           /\ Permutation(last.pre, root)
           /\ Ordered(root, last.index.key, last.index.reverse)

\* A descending sort that moved elements: two elements with different keys,
\* in ascending order before the call.
C11_Witness ==
    /\ SeqCall("sort")
    /\ last.index.reverse
    /\ last.err = "none"
    /\ Len(root) >= 2
    /\ root # last.pre
    /\ SortKey(last.index.key, root[1]) > SortKey(last.index.key, root[Len(root)])

---------------------------------------------------------------------------
(* C12 *)

\* C12: on a persistent sequence, in every state reached by any operations:
\* the backend has received as many commits as the caller made commit() calls
\* (each call forwards exactly one), it has received no add, load or delete,
\* and a commit() call leaves the in-memory store as it was.
C12_OnlyCommitReachesBackend ==
    persistence_db # None
        => /\ persistence_db.commit = commit_calls
           /\ persistence_db.add = 0
           /\ persistence_db.load = 0
           /\ persistence_db.delete = 0
           /\ SeqCall("commit") => (last.err = "none" /\ root = last.pre)

\* A second commit() on a store that appends and commits have built.
C12_Witness ==
    /\ SeqCall("commit")
    /\ persistence_db # None
    /\ commit_calls = 2
    /\ persistence_db.commit = 2
    /\ Len(root) >= 1

---------------------------------------------------------------------------
(* C13 *)

\* The store is the store before the call with v put in at position p.
InsertedAt(p, v) ==
    /\ Len(root) = Len(last.pre) + 1
    /\ root[p] = v
    /\ \A q \in DOMAIN last.pre : last.pre[q] = root[IF q < p THEN q ELSE q + 1]

\* C13: with validate_assignment off, whatever validate_assignment_strict is, a
\* mutation of one element (set at an existing index, insert, append, mapping
\* set) given any value raises nothing, runs the validator zero times and
\* stores the very value it was given.
C13_ValidationOffStoresRaw ==
    (~model_config.validate_assignment /\ SingleMutation
        /\ (SetIndexCall => InRange(last.index.val, Len(last.pre))))
        => /\ last.err = "none"
           /\ last.calls = 0
           /\ SetIndexCall
                => SameBut(Pos(last.index.val, Len(last.pre)), last.value)
           /\ SeqCall("append") => InsertedAt(Len(last.pre) + 1, last.value)
           /\ SeqCall("insert")
                => \E p \in 1..(Len(last.pre) + 1) : InsertedAt(p, last.value)
           /\ MapCall("__setitem__") => SameButKey(last.index, last.value)

\* A bare string stored in a collection of users whose strict flag is on but
\* whose validation is off.
C13_Witness ==
    /\ ~model_config.validate_assignment
    /\ model_config.validate_assignment_strict
    /\ annotation = ClassT("User")
    /\ SingleMutation
    /\ last.value = StrV("user")
    /\ last.err = "none"
    /\ \/ kind = "mapping" /\ Lookup(root, last.index) = StrV("user")
       \/ SeqCall("append") /\ root[Len(root)] = StrV("user")

---------------------------------------------------------------------------
(* C14 *)

\* The elements a constructor call was given, in the order of the final store.
GivenElements ==
    (IF last.value.root = None THEN <<>> ELSE last.value.root.items)
        \o last.value.data

\* C14: under the strict policy, a construction (no keywords) given an element
\* whose type is not among the annotation's types is rejected with a validation
\* error located at that element's final index, as set and append reject it.
C14_ConstructionAppliesStrictPolicy ==
    (Strict /\ SeqCall("__init__") /\ last.value.kwargs = <<>>)
        => \A i \in DOMAIN GivenElements :
            (~isinstance(GivenElements[i], get_types_from_annotation(annotation))
                /\ \A j \in 1..(i - 1) :
                    isinstance(GivenElements[j], get_types_from_annotation(annotation)))
                => /\ last.err = "ValidationError"
                   /\ last.loc = <<IntV(i - 1)>>

---------------------------------------------------------------------------
(* C16 *)

\* C16 as stated: when append(value) fails validation on a sequence of length
\* n, the location in the error is n + 1.
C16_AppendLocIsNewLength ==
    (SeqCall("append") /\ last.err = "ValidationError")
        => last.loc = <<IntV(Len(last.pre) + 1)>>

\* C16, amended: when append(value) fails validation on a sequence of length n,
\* the location in the error is n, the index the element would occupy.
C16_AppendLocIsIndex ==
    (SeqCall("append") /\ last.err = "ValidationError")
        => /\ last.loc = <<IntV(Len(last.pre))>>
           /\ root = last.pre

\* A failing append on a sequence that holds an element.
C16_Witness ==
    /\ SeqCall("append")
    /\ last.err = "ValidationError"
    /\ Len(last.pre) >= 1
    /\ last.loc = <<IntV(Len(last.pre))>>

---------------------------------------------------------------------------
(* C17 *)

\* C17: every key of a mapping's store is a string, in every state; and a set
\* that fails reports as location the key it would have stored the value under.
C17_MappingKeysAreStrings ==
    kind = "mapping"
        => /\ \A i \in DOMAIN root : root[i].key.cls = "str"
           /\ (last.op = "__setitem__" /\ last.err = "ValidationError")
                => last.loc = <<last.index>>

---------------------------------------------------------------------------
(* C18 *)

\* C18: for a slice s with a step other than 0 and a list of valid values as
\* long as the list of positions list[s] selects in the store, seq[s] = values
\* raises nothing, puts values[j] at the j-th selected position and leaves the
\* length and the other positions as they were.
C18_SliceAssignmentAddressesSlice ==
    LET ps == SlicePositions(last.index, Len(last.pre))
    IN  (/\ SetSliceCall
         /\ SliceStep(last.index) # 0
         /\ AllElements(last.value.items)
         /\ Len(last.value.items) = Len(ps))
            => /\ last.err = "none"
               /\ Len(root) = Len(last.pre)
               /\ \A j \in DOMAIN ps : root[ps[j] + 1] = last.value.items[j]
               /\ \A q \in DOMAIN last.pre :
                    (\A j \in DOMAIN ps : ps[j] + 1 # q) => root[q] = last.pre[q]

---------------------------------------------------------------------------
(* C15 *)

\* The runs of the body so far for all element types filed under the key of
\* (cls, el_type).
RECURSIVE SumRuns(_, _)
SumRuns(ts, runs) ==
    IF ts = {} THEN 0
    ELSE LET t == CHOOSE x \in ts : TRUE
         IN  runs[t] + SumRuns(ts \ {t}, runs)

RunsForKey(cls, el_type, runs) ==
    SumRuns({<<cls, t>> : t \in {x \in ElTypes : CacheKey(cls, x) = CacheKey(cls, el_type)}},
            runs)

\* The classes built for a key other than k that the cache holds.
ClassesOfOtherKeys(k) == {c.class : c \in {x \in cached : x.key # k}}

\* C15: for a hashable element type the class can be built from, every
\* specialization of a class with it returns the one class object the cache
\* holds for (class, element type) and the body has run exactly once for that
\* key however many calls were made; the classes of different keys differ; for
\* an unhashable element type nothing is cached and every call runs the body
\* and returns a class no earlier call returned.
C15_SpecializationIsMemoized ==
    LET cls == specialized.cls
        tp == specialized.el_type
        key == CacheKey(cls, tp)
    IN  /\ (specialized.op = "__getitem__" /\ Hashable(tp) /\ Buildable(tp))
            => /\ specialized.err = "none"
               /\ [key |-> key, class |-> specialized.ret] \in cached
               /\ RunsForKey(cls, tp, body_runs) = 1
               /\ (\E c \in specialized.pre : c.key = key)
                    => /\ [key |-> key, class |-> specialized.ret] \in specialized.pre
                       /\ body_runs = specialized.pre_runs
                       /\ cached = specialized.pre
               /\ specialized.ret \notin ClassesOfOtherKeys(key)
        /\ \A c, d \in cached : (c.key = d.key) <=> (c.class = d.class)
        /\ (specialized.op = "__getitem__" /\ ~Hashable(tp))
            => /\ specialized.err = "none"
               /\ cached = specialized.pre
               /\ body_runs[<<cls, tp>>] = specialized.pre_runs[<<cls, tp>>] + 1
               /\ specialized.ret = ClassObject(cls, tp, body_runs[<<cls, tp>>])
               /\ \A c \in cached : c.class # specialized.ret

\* A second specialization with the same element type answered from the cache,
\* while another class and another element type are cached too.
C15_Witness ==
    /\ specialized.op = "__getitem__"
    /\ specialized.el_type = ClassT("User")
    /\ \E c \in specialized.pre : c.key = CacheKey(specialized.cls, specialized.el_type)
    /\ specialized.err = "none"
    /\ Cardinality(cached) >= 3
    /\ \E b \in Containers : body_runs[<<b, AnnotatedT("User", "dict")>>] >= 2

====
